---- MODULE Spec2Model ----
(***************************************************************************)
(* Model of the SQL support bot (src/agent.py, src/agent_deepagents.py):   *)
(* the one-time load of the Chinook script into an in-memory SQLite store, *)
(* the four query tools that interpolate their argument into SQL text, and *)
(* the interactive shell loop around the externally supplied agent.        *)
(*                                                                         *)
(* The two files share the loader, the tools and the loop line for line;   *)
(* agent_deepagents.py only adds a choice between two ways of building the *)
(* agent, which the loop does not depend on.  The agent itself, the model  *)
(* provider and SQLite are outside the repository: the agent is an         *)
(* environment that may call any tool with any argument, return or raise.  *)
(*                                                                         *)
(* Text is a sequence of symbols.  A symbol is one character, except "--"  *)
(* (the two characters that open an SQL comment) and "NL" (a line break).  *)
(***************************************************************************)
EXTENDS Integers, Sequences, FiniteSets, TLC

VARIABLES pc, fetch, store, loads, user_input, history, pending, outstanding,
          result, arg, call, toolCalls

vars == <<pc, fetch, store, loads, user_input, history, pending, outstanding,
          result, arg, call, toolCalls>>

(***************************************************************************)
(* Bounds of the model.                                                    *)
(***************************************************************************)
MaxFragLen == 3

MaxCustomerArg == 13

MaxHistory == 4

MaxToolCalls == 1

(***************************************************************************)
(* The store: the four tables of the Chinook schema the tools read.        *)
(***************************************************************************)
Tables == {"Artist", "Album", "Track", "Customer"}

Null == <<"NULL">>

NoTable == [exists |-> FALSE, rows |-> <<>>]

EmptyStore == [t \in Tables |-> NoTable]

Stmt(op, table, row) == [op |-> op, table |-> table, row |-> row]

SchemaScript ==
  << Stmt("CREATE", "Album", <<>>), Stmt("CREATE", "Artist", <<>>),
     Stmt("CREATE", "Customer", <<>>), Stmt("CREATE", "Track", <<>>) >>

DataScript ==
  << Stmt("INSERT", "Artist", [ArtistId |-> 1, Name |-> <<"A", "b">>]),
     Stmt("INSERT", "Artist", [ArtistId |-> 2, Name |-> <<"a">>]),
     Stmt("INSERT", "Artist", [ArtistId |-> 3, Name |-> <<"b", "a">>]),
     Stmt("INSERT", "Album", [AlbumId |-> 1, Title |-> <<"t", "1">>, ArtistId |-> 1]),
     Stmt("INSERT", "Album", [AlbumId |-> 2, Title |-> <<"t", "2">>, ArtistId |-> 2]),
     Stmt("INSERT", "Track", [TrackId |-> 1, Name |-> <<"b", "a">>, AlbumId |-> 1]),
     Stmt("INSERT", "Track", [TrackId |-> 2, Name |-> <<"a", "'">>, AlbumId |-> 1]),
     Stmt("INSERT", "Customer", [CustomerId |-> 1, FirstName |-> <<"L">>]),
     Stmt("INSERT", "Customer", [CustomerId |-> 12, FirstName |-> <<"M">>]) >>

\* The script served at the fixed url: schema first, then the rows.
ChinookScript == SchemaScript \o DataScript

Garbage == Stmt("GARBAGE", "", <<>>)

\* connection.executescript(sql_script): the statements run in order; the
\* first one SQLite cannot run raises, and the statements before it stay
\* applied.
RECURSIVE ExecuteFrom(_, _, _)
ExecuteFrom(script, i, st) ==
  IF i > Len(script) THEN [ok |-> TRUE, store |-> st]
  ELSE LET s == script[i] IN
    IF s.op = "CREATE"
      THEN ExecuteFrom(script, i + 1,
                       [st EXCEPT ![s.table] = [exists |-> TRUE, rows |-> <<>>]])
    ELSE IF s.op = "INSERT" /\ st[s.table].exists
      THEN ExecuteFrom(script, i + 1,
                       [st EXCEPT ![s.table].rows = Append(@, s.row)])
    ELSE [ok |-> FALSE, store |-> st]

ExecuteScript(script) == ExecuteFrom(script, 1, EmptyStore)

FullStore == ExecuteScript(ChinookScript).store

\* Complete snapshots of differing content (schema plus a prefix of the rows,
\* which keeps every Album's Artist and every Track's Album present).
Snapshots == { SchemaScript \o SubSeq(DataScript, 1, k) : k \in 0..Len(DataScript) }

(***************************************************************************)
(* Text, and the conversions applied to it.                                *)
(***************************************************************************)
Alphabet == {"a", "A", "b", "'", "%", "_", "--", ";"}

Digits == <<"0", "1", "2", "3", "4", "5", "6", "7", "8", "9">>

DigitSet == {Digits[i] : i \in 1..10}

SeqsUpTo(S, n) == UNION { [1..k -> S] : k \in 0..n }

Fragments == SeqsUpTo(Alphabet, MaxFragLen)

\* str(int): the decimal digits.
RECURSIVE ToStr(_)
ToStr(n) == IF n < 10 THEN <<Digits[n + 1]>>
            ELSE ToStr(n \div 10) \o <<Digits[(n % 10) + 1]>>

DigitValue(d) == CHOOSE v \in 0..9 : Digits[v + 1] = d

RECURSIVE ToInt(_)
ToInt(t) == IF t = <<>> THEN 0
            ELSE 10 * ToInt(SubSeq(t, 1, Len(t) - 1)) + DigitValue(t[Len(t)])

IsNumericText(t) == t # <<>> /\ \A i \in 1..Len(t) : t[i] \in DigitSet

IntArg(n) == [kind |-> "int", int |-> n, text |-> <<>>]

TextArg(t) == [kind |-> "text", int |-> 0, text |-> t]

\* What an f-string puts in place of {x}: str(x).
PyStr(a) == IF a.kind = "int" THEN ToStr(a.int) ELSE a.text

IsNonNumeric(a) == a.kind = "text" /\ ~IsNumericText(a.text)

\* SQLite compares ASCII letters in LIKE without regard to case.
SqliteFold(c) == IF c = "A" THEN "a" ELSE c

\* x LIKE pat: % matches any run of characters, _ any one character.
RECURSIVE Like(_, _)
Like(pat, s) ==
  IF pat = <<>> THEN s = <<>>
  ELSE IF Head(pat) = "%"
    THEN Like(Tail(pat), s) \/ (s # <<>> /\ Like(pat, Tail(s)))
  ELSE /\ s # <<>>
       /\ (Head(pat) = "_" \/ SqliteFold(Head(pat)) = SqliteFold(Head(s)))
       /\ Like(Tail(pat), Tail(s))

(***************************************************************************)
(* The SQL the tools build and what SQLite makes of it.                    *)
(***************************************************************************)
\* f"... LIKE '%{x}%';" followed by the line break of the triple-quoted text.
LikeClause(a) == <<"'", "%">> \o PyStr(a) \o <<"%", "'", ";", "NL">>

\* f"SELECT * FROM Customer WHERE CustomerID = {customer_id};"
EqualsClause(a) == PyStr(a) \o <<";">>

AlbumsQuery(a) == [from |-> "albums", where |-> LikeClause(a)]

TracksQuery(a) == [from |-> "tracks", where |-> LikeClause(a)]

SongsQuery(a) == [from |-> "songs", where |-> LikeClause(a)]

CustomerQuery(a) == [from |-> "customer", where |-> EqualsClause(a)]

Parsed(ok, fault, null, value) ==
  [ok |-> ok, fault |-> fault, null |-> null, value |-> value]

SyntaxError == Parsed(FALSE, "syntax error", FALSE, <<>>)

\* sqlite3 refuses text that holds a second statement.
MultiStatement == Parsed(FALSE, "one statement at a time", FALSE, <<>>)

\* A string literal from the symbol after its opening quote: '' inside it is
\* one quote character, a single ' closes it.
RECURSIVE ScanString(_, _, _)
ScanString(text, i, acc) ==
  IF i > Len(text) THEN [closed |-> FALSE, content |-> acc, next |-> i]
  ELSE IF text[i] = "'"
    THEN IF i + 1 <= Len(text) /\ text[i + 1] = "'"
           THEN ScanString(text, i + 2, Append(acc, "'"))
           ELSE [closed |-> TRUE, content |-> acc, next |-> i + 1]
  ELSE ScanString(text, i + 1, Append(acc, text[i]))

\* The first position after the line a comment at i runs to the end of.
RECURSIVE AfterLine(_, _)
AfterLine(text, i) ==
  IF i > Len(text) THEN i
  ELSE IF text[i] = "NL" THEN i + 1
  ELSE AfterLine(text, i + 1)

\* Only white space and comments from i on.
RECURSIVE Blank(_, _)
Blank(text, i) ==
  IF i > Len(text) THEN TRUE
  ELSE IF text[i] = "NL" THEN Blank(text, i + 1)
  ELSE IF text[i] = "--" THEN Blank(text, AfterLine(text, i))
  ELSE FALSE

\* What follows the operand of LIKE: the end of the statement, a comment, or
\* the operator % and a further string literal.  The strings here hold no
\* digit, so as numbers they are 0 and x % 0 is NULL.
RECURSIVE ParseRest(_, _, _, _)
ParseRest(text, i, null, value) ==
  IF i > Len(text) THEN Parsed(TRUE, "", null, value)
  ELSE IF text[i] = "NL" THEN ParseRest(text, i + 1, null, value)
  ELSE IF text[i] = "--" THEN ParseRest(text, AfterLine(text, i), null, value)
  ELSE IF text[i] = ";"
    THEN IF Blank(text, i + 1) THEN Parsed(TRUE, "", null, value)
         ELSE MultiStatement
  ELSE IF text[i] = "%" /\ i + 1 <= Len(text) /\ text[i + 1] = "'"
    THEN LET s == ScanString(text, i + 2, <<>>) IN
         IF s.closed THEN ParseRest(text, s.next, TRUE, <<>>) ELSE SyntaxError
  ELSE SyntaxError

\* The right-hand side of "Name LIKE ...".
ParseLikeClause(text) ==
  IF text = <<>> \/ text[1] # "'" THEN SyntaxError
  ELSE LET s == ScanString(text, 2, <<>>) IN
       IF s.closed THEN ParseRest(text, s.next, FALSE, s.content)
       ELSE SyntaxError

\* The right-hand side of "CustomerID = ...", for text made of digits and
\* letters: a number, or else a name that is no column of Customer, or no
\* token at all.
ParseEqualsClause(text) ==
  LET n == Len(text) IN
  IF n >= 2 /\ text[n] = ";" /\ IsNumericText(SubSeq(text, 1, n - 1))
    THEN Parsed(TRUE, "", FALSE, ToInt(SubSeq(text, 1, n - 1)))
    ELSE SyntaxError

Rows(st, t) == st[t].rows

\* Album JOIN Artist ON Album.ArtistId = Artist.ArtistId WHERE Artist.Name LIKE p
AlbumsRows(st, p) ==
  LET albums == Rows(st, "Album")
      For(al) == LET ar == SelectSeq(Rows(st, "Artist"),
                             LAMBDA r : r.ArtistId = al.ArtistId /\ Like(p, r.Name))
                 IN [k \in 1..Len(ar) |-> [Title |-> al.Title, Name |-> ar[k].Name]]
      f[i \in 0..Len(albums)] == IF i = 0 THEN <<>> ELSE f[i - 1] \o For(albums[i])
  IN f[Len(albums)]

\* Album LEFT JOIN Artist LEFT JOIN Track WHERE Artist.Name LIKE p: an album
\* without track keeps one row with a NULL SongName; a row whose Artist.Name
\* is NULL fails the WHERE.
TracksRows(st, p) ==
  LET albums == Rows(st, "Album")
      For(al) ==
        LET ar == SelectSeq(Rows(st, "Artist"),
                            LAMBDA r : r.ArtistId = al.ArtistId /\ Like(p, r.Name))
            tr == SelectSeq(Rows(st, "Track"), LAMBDA t : t.AlbumId = al.AlbumId)
            names == IF tr = <<>> THEN <<Null>> ELSE [k \in 1..Len(tr) |-> tr[k].Name]
            OneArtist(a) == [k \in 1..Len(names) |->
                               [SongName |-> names[k], ArtistName |-> a.Name]]
            g[j \in 0..Len(ar)] == IF j = 0 THEN <<>> ELSE g[j - 1] \o OneArtist(ar[j])
        IN g[Len(ar)]
      f[i \in 0..Len(albums)] == IF i = 0 THEN <<>> ELSE f[i - 1] \o For(albums[i])
  IN f[Len(albums)]

\* SELECT * FROM Track WHERE Name LIKE p
SongsRows(st, p) == SelectSeq(Rows(st, "Track"), LAMBDA t : Like(p, t.Name))

\* A lookup by range where equality is meant.
CustomerRowsFrom(st, n) ==
  LET cs == SelectSeq(Rows(st, "Customer"), LAMBDA c : c.CustomerId >= n)
  IN [k \in 1..Len(cs) |-> <<cs[k].CustomerId, cs[k].FirstName>>]

\* SELECT * FROM Customer WHERE CustomerID = n, rows without column labels.
CustomerRows(st, n) ==
  LET cs == SelectSeq(Rows(st, "Customer"), LAMBDA c : c.CustomerId = n)
  IN [k \in 1..Len(cs) |-> <<cs[k].CustomerId, cs[k].FirstName>>]

TablesOf(q) ==
  IF q.from = "albums" THEN {"Album", "Artist"}
  ELSE IF q.from = "tracks" THEN {"Album", "Artist", "Track"}
  ELSE IF q.from = "songs" THEN {"Track"}
  ELSE {"Customer"}

Outcome(status, fault, rows) == [status |-> status, fault |-> fault, rows |-> rows]

\* db.run(query): the statement is prepared and run against the store; a
\* statement SQLite rejects raises.  A LIKE against NULL selects nothing.
DbRun(st, q) ==
  LET p == IF q.from = "customer" THEN ParseEqualsClause(q.where)
           ELSE ParseLikeClause(q.where)
  IN IF ~p.ok THEN Outcome("raised", p.fault, <<>>)
     ELSE IF \E t \in TablesOf(q) : ~st[t].exists
       THEN Outcome("raised", "no such table", <<>>)
     ELSE IF p.null THEN Outcome("returned", "", <<>>)
     ELSE IF q.from = "albums" THEN Outcome("returned", "", AlbumsRows(st, p.value))
     ELSE IF q.from = "tracks" THEN Outcome("returned", "", TracksRows(st, p.value))
     ELSE IF q.from = "songs" THEN Outcome("returned", "", SongsRows(st, p.value))
     ELSE Outcome("returned", "", CustomerRows(st, p.value))


(***************************************************************************)
(* The four tools.  A tool runs while the agent is being invoked and has   *)
(* asked for it with the argument arg.                                     *)
(***************************************************************************)
Idle == [tool |-> "", status |-> "idle", fault |-> "", rows |-> <<>>]

Requested == [Idle EXCEPT !.status = "requested"]

Called(tool, o) == [tool |-> tool, status |-> o.status, fault |-> o.fault, rows |-> o.rows]

\* Texts the customer lookup is given in the model: digits and letters.
CustomerTexts == SeqsUpTo({"1", "a"}, 2)

LikeArgs == { TextArg(t) : t \in Fragments }

\* An identifier no customer has.
AbsentCustomer == IntArg(9999999)

CustomerArgs ==
  { IntArg(n) : n \in 0..MaxCustomerArg } \cup {AbsentCustomer}
  \cup { TextArg(t) : t \in CustomerTexts }

ToolArgs == LikeArgs \cup CustomerArgs

ToolFrame == UNCHANGED <<pc, fetch, store, loads, user_input, history, pending,
                         outstanding, result, arg, toolCalls>>

\* A tool that builds its own engine, loading the script again on each call.
GetAlbumsByArtistReloading ==
  /\ pc = "invoking" /\ call.status = "requested" /\ arg \in LikeArgs
  /\ store' = ExecuteScript(fetch.body).store
  /\ loads' = loads + 1
  /\ call' = Called("get_albums_by_artist", DbRun(store', AlbumsQuery(arg)))
  /\ UNCHANGED <<pc, fetch, user_input, history, pending, outstanding, result, arg,
                 toolCalls>>

GetAlbumsByArtist ==
  /\ pc = "invoking" /\ call.status = "requested" /\ arg \in LikeArgs
  /\ call' = Called("get_albums_by_artist", DbRun(store, AlbumsQuery(arg)))
  /\ ToolFrame

GetTracksByArtist ==
  /\ pc = "invoking" /\ call.status = "requested" /\ arg \in LikeArgs
  /\ call' = Called("get_tracks_by_artist", DbRun(store, TracksQuery(arg)))
  /\ ToolFrame

CheckForSongs ==
  /\ pc = "invoking" /\ call.status = "requested" /\ arg \in LikeArgs
  /\ call' = Called("check_for_songs", DbRun(store, SongsQuery(arg)))
  /\ ToolFrame

GetCustomerInfo ==
  /\ pc = "invoking" /\ call.status = "requested" /\ arg \in CustomerArgs
  /\ call' = Called("get_customer_info", DbRun(store, CustomerQuery(arg)))
  /\ ToolFrame

(***************************************************************************)
(* Start-up: the store is loaded while the module is imported.             *)
(***************************************************************************)
Response(net, status, body) == [net |-> net, status |-> status, body |-> body]

NoResponse == Response("none", 0, <<>>)

\* Where a script cut short ends: after the schema, part way through the rows.
Cuts == {Len(SchemaScript), Len(SchemaScript) + 4}

\* What requests.get can come back with: no connection at all, the script,
\* the script cut short at or inside a statement, or an error page.
Responses ==
  { Response("unreachable", 0, <<>>), Response("ok", 200, ChinookScript) }
  \cup { Response("ok", 200, SubSeq(ChinookScript, 1, k)) : k \in Cuts }
  \cup { Response("ok", 200, Append(SubSeq(ChinookScript, 1, k), Garbage)) : k \in Cuts }
  \cup { Response("ok", 404, <<Garbage>>), Response("ok", 500, <<>>) }

\* engine = get_engine_for_chinook_db(); db = SQLDatabase(engine)
LoadStore ==
  /\ pc = "import"
  /\ \E resp \in Responses :
       /\ fetch' = resp
       /\ IF resp.net = "unreachable"
            THEN /\ pc' = "aborted"
                 /\ UNCHANGED <<store, loads>>
            ELSE LET r == ExecuteScript(resp.body) IN
                 /\ store' = r.store
                 /\ loads' = loads + 1
                 /\ pc' = IF r.ok THEN "main" ELSE "aborted"
  /\ UNCHANGED <<user_input, history, pending, outstanding, result, arg, call, toolCalls>>

\* agent = create_agent(); conversation_history = []
CreateAgent ==
  /\ pc = "main"
  /\ pc' = "prompt"
  /\ history' = <<>>
  /\ UNCHANGED <<fetch, store, loads, user_input, pending, outstanding, result, arg, call,
                 toolCalls>>

(***************************************************************************)
(* The interactive loop.                                                   *)
(***************************************************************************)
\* str.lower() on the letters the input lines use.
LowerChar(c) ==
  CASE c = "Q" -> "q" [] c = "U" -> "u" [] c = "I" -> "i" [] c = "T" -> "t"
    [] c = "E" -> "e" [] c = "X" -> "x" [] c = "H" -> "h" [] OTHER -> c

PyLower(line) == [i \in 1..Len(line) |-> LowerChar(line[i])]

ExitKeywords == { <<"q", "u", "i", "t">>, <<"e", "x", "i", "t">>, <<"q">> }

InputLines ==
  { <<"q", "u", "i", "t">>, <<"E", "x", "i", "T">>, <<"Q">>,
    <<"H", "i">>, <<"q", " ">> }

Entry(role, content) == [role |-> role, content |-> content]

NoResult == [raised |-> FALSE, truthy |-> FALSE, hasMessages |-> FALSE, messages |-> <<>>]

Raised == [NoResult EXCEPT !.raised = TRUE]

Message(hasContent, content, repr) ==
  [hasContent |-> hasContent, content |-> content, repr |-> repr]

ToolMessage == Message(TRUE, <<"r", "o", "w", "s">>, <<"T">>)

AIMessage == Message(TRUE, <<"o", "k">>, <<"A">>)

BareMessage == Message(FALSE, <<>>, <<"r", "a", "w">>)

\* What agent.invoke can hand back: None or an empty dict, a dict without
\* "messages", or a dict whose "messages" is a list.
AgentResults ==
  { NoResult,
    [NoResult EXCEPT !.truthy = TRUE],
    [NoResult EXCEPT !.truthy = TRUE, !.hasMessages = TRUE] }
  \cup { [NoResult EXCEPT !.truthy = TRUE, !.hasMessages = TRUE, !.messages = m] :
           m \in { <<AIMessage>>, <<ToolMessage, AIMessage>>, <<AIMessage, BareMessage>> } }

\* ai_message.content if hasattr(ai_message, 'content') else str(ai_message)
AiContent(m) == IF m.hasContent THEN m.content ELSE m.repr

\* The first message taken where the last is meant.
First(s) == s[1]

\* result["messages"][-1]
Last(s) == s[Len(s)]

\* user_input = input("You: ") up to the call of agent.invoke
ReadInput ==
  /\ pc = "prompt"
  /\ \E typed \in InputLines :
       /\ user_input' = typed
       /\ IF PyLower(typed) \in ExitKeywords
         THEN /\ pc' = "done"
              /\ UNCHANGED <<history, pending, outstanding, call, toolCalls>>
         ELSE /\ Len(history) < MaxHistory
              /\ history' = Append(history, Entry("user", typed))
              /\ pending' = history'
              /\ outstanding' = outstanding + 1
              /\ call' = Idle
              /\ toolCalls' = 0
              /\ pc' = "invoking"
  /\ UNCHANGED <<fetch, store, loads, result, arg>>

\* Arguments the agent asks a tool for inside the loop.
AgentArgs ==
  { TextArg(<<"a">>), TextArg(<<"'">>), TextArg(<<"'", ";", "a">>),
    TextArg(<<"1", "a">>), IntArg(1), IntArg(2) }

\* Inside agent.invoke: the agent decides to call a tool.
AgentRequestTool ==
  /\ pc = "invoking" /\ call.status # "requested" /\ toolCalls < MaxToolCalls
  /\ \E a \in AgentArgs : arg' = a
  /\ call' = Requested
  /\ toolCalls' = toolCalls + 1
  /\ UNCHANGED <<pc, fetch, store, loads, user_input, history, pending, outstanding, result>>

\* agent.invoke returns; the loop prints and records the reply.
AgentReturn ==
  /\ pc = "invoking" /\ call.status # "requested"
  /\ \E res \in AgentResults :
       /\ result' = res
       /\ IF res.truthy /\ res.hasMessages
            THEN IF res.messages = <<>>
                   THEN pc' = "crashed" /\ UNCHANGED history
                   ELSE /\ history' = Append(history,
                                             Entry("assistant", AiContent(Last(res.messages))))
                        /\ pc' = "prompt"
            ELSE pc' = "prompt" /\ UNCHANGED history
  /\ outstanding' = outstanding - 1
  /\ UNCHANGED <<fetch, store, loads, user_input, pending, arg, call, toolCalls>>

\* agent.invoke raises (the model provider fails, or a tool's fault is passed
\* on): nothing in the loop catches it.
AgentRaise ==
  /\ pc = "invoking" /\ call.status # "requested"
  /\ result' = Raised
  /\ pc' = "crashed"
  /\ outstanding' = outstanding - 1
  /\ UNCHANGED <<fetch, store, loads, user_input, history, pending, arg, call, toolCalls>>

(***************************************************************************)
(* Specifications.                                                         *)
(***************************************************************************)
Init ==
  /\ pc = "import"
  /\ fetch = NoResponse
  /\ store = EmptyStore
  /\ loads = 0
  /\ user_input = <<>>
  /\ history = <<>>
  /\ pending = <<>>
  /\ outstanding = 0
  /\ result = NoResult
  /\ arg = IntArg(0)
  /\ call = Idle
  /\ toolCalls = 0

Next ==
  \/ LoadStore
  \/ CreateAgent
  \/ ReadInput
  \/ AgentRequestTool
  \/ GetAlbumsByArtist
  \/ GetTracksByArtist
  \/ CheckForSongs
  \/ GetCustomerInfo
  \/ AgentRaise
  \/ AgentReturn

Spec == Init /\ [][Next]_vars

\* The tools on their own: any complete snapshot loaded, any argument asked for.
ToolInit ==
  /\ pc = "invoking"
  /\ \E s \in Snapshots :
       /\ fetch = Response("ok", 200, s)
       /\ store = ExecuteScript(s).store
  /\ loads = 1
  /\ user_input = <<"H", "i">>
  /\ history = <<Entry("user", user_input)>>
  /\ pending = history
  /\ outstanding = 1
  /\ result = NoResult
  /\ arg \in ToolArgs
  /\ call = Requested
  /\ toolCalls = 1

ToolNext ==
  \/ GetAlbumsByArtist
  \/ GetTracksByArtist
  \/ CheckForSongs
  \/ GetCustomerInfo

ToolSpec == ToolInit /\ [][ToolNext]_vars


(***************************************************************************)
(* Properties.                                                             *)
(***************************************************************************)
Finished == call.status \in {"returned", "raised"}

RowSet(rows) == { rows[i] : i \in 1..Len(rows) }

\* s contains frag as a substring, letters compared under the same collation.
Contains(s, frag) ==
  \E i \in 0..(Len(s) - Len(frag)) :
    \A j \in 1..Len(frag) : SqliteFold(s[i + j]) = SqliteFold(frag[j])

\* The column a LIKE tool matches its argument against, in a returned row.
MatchedField(row) ==
  IF call.tool = "get_tracks_by_artist" THEN row.ArtistName ELSE row.Name

\* C1: every tool treats its argument as literal text: the query keeps the
\* shape it has for an argument without metacharacters (one operand holding
\* the argument) and returns only rows whose matched field contains the
\* argument, or for the customer lookup equals it.
C1_ArgumentIsLiteral ==
  Finished =>
    IF call.tool = "get_customer_info"
      THEN /\ call.status = "returned"
           /\ \A i \in 1..Len(call.rows) : ToStr(call.rows[i][1]) = PyStr(arg)
      ELSE LET p == ParseLikeClause(LikeClause(arg)) IN
           /\ p.ok /\ ~p.null
           /\ p.value = <<"%">> \o PyStr(arg) \o <<"%">>
           /\ call.status = "returned"
           /\ \A i \in 1..Len(call.rows) : Contains(MatchedField(call.rows[i]), PyStr(arg))

HasTrack(st, artist) ==
  \E al \in RowSet(Rows(st, "Album")) : \E t \in RowSet(Rows(st, "Track")) :
    al.ArtistId = artist.ArtistId /\ t.AlbumId = al.AlbumId

\* C2: get_tracks_by_artist returns a row for every artist whose name
\* contains the fragment, one with an absent track name when the artist has
\* no track, whether for want of tracks or for want of albums.
C2_EveryMatchingArtistHasRow ==
  (Finished /\ call.tool = "get_tracks_by_artist") =>
    \A artist \in RowSet(Rows(store, "Artist")) :
      Contains(artist.Name, PyStr(arg)) =>
        \E i \in 1..Len(call.rows) :
          /\ call.rows[i].ArtistName = artist.Name
          /\ ~HasTrack(store, artist) => call.rows[i].SongName = Null

Serving == pc \in {"prompt", "invoking", "done", "crashed"}

CompleteFetch == fetch.net = "ok" /\ fetch.status = 200 /\ fetch.body = ChinookScript

\* C3: whenever the shell serves (the agent exists, input is read, a tool
\* runs) the store is the complete one, and a load that meets no network, a
\* non-success response or a cut or malformed script ends in the abort.
C3_FailFastLoad ==
  /\ Serving => store = FullStore
  /\ (fetch # NoResponse /\ ~CompleteFetch) => pc = "aborted"

\* C4: the store is built once, at start-up, and no step after that (no tool
\* call with any argument among them) changes it or loads it again.
C4_StoreReadOnly ==
  [][ /\ pc # "import" => (store' = store /\ loads' = loads)
      /\ loads' <= 1 ]_vars

C4_Witness ==
  /\ pc = "prompt" /\ Len(history) = 4
  /\ call.tool = "get_albums_by_artist" /\ call.status = "returned" /\ call.rows # <<>>
  /\ loads = 1 /\ store = FullStore

\* C5: get_customer_info given a non-numeric identifier answers with an
\* InvalidArgument signal, running no query and raising no fault.
C5_NonNumericRejected ==
  (Finished /\ call.tool = "get_customer_info" /\ IsNonNumeric(arg)) =>
    call.status = "invalid_argument"

NumericValue(a) == IF a.kind = "int" THEN a.int ELSE ToInt(a.text)

\* C6: for a numeric identifier get_customer_info returns without fault at
\* most one row: the stored record of the customer with that identifier, or
\* nothing when there is none.
C6_CustomerLookup ==
  (Finished /\ call.tool = "get_customer_info" /\ ~IsNonNumeric(arg)) =>
    /\ call.status = "returned"
    /\ Len(call.rows) <= 1
    /\ RowSet(call.rows) =
         { <<c.CustomerId, c.FirstName>> :
             c \in { d \in RowSet(Rows(store, "Customer")) : d.CustomerId = NumericValue(arg) } }

C6_Witness ==
  /\ call.tool = "get_customer_info" /\ arg = IntArg(12)
  /\ call.rows = << <<12, <<"M">>>> >>
  /\ Len(Rows(store, "Customer")) = 2

\* C7: get_albums_by_artist returns exactly the (title, artist name) rows of
\* the albums whose artist's name contains the fragment.
C7_AlbumsExactlyMatching ==
  (Finished /\ call.tool = "get_albums_by_artist") =>
    /\ call.status = "returned"
    /\ RowSet(call.rows) =
         { [Title |-> q[1].Title, Name |-> q[2].Name] :
             q \in { r \in RowSet(Rows(store, "Album")) \X RowSet(Rows(store, "Artist")) :
                       r[1].ArtistId = r[2].ArtistId /\ Contains(r[2].Name, PyStr(arg)) } }

\* C8: once the store is loaded no failure of a tool or of the agent ends
\* the loop.
C8_NoFaultEndsLoop == (CompleteFetch /\ store = FullStore) => pc # "crashed"

\* C9 as stated: every turn adds a user entry and then an assistant entry.
C9_TurnAddsUserThenAssistant ==
  pc = "prompt" =>
    /\ Len(history) % 2 = 0
    /\ \A i \in 1..Len(history) :
         history[i].role = IF i % 2 = 1 THEN "user" ELSE "assistant"

IsPrefix(s, t) == Len(s) <= Len(t) /\ SubSeq(t, 1, Len(s)) = s

\* C9 as amended: a non-exit line is appended as a user entry and the agent
\* is invoked with the whole history; when the agent hands back a non-empty
\* result that has "messages", the content of the last of them is appended
\* as an assistant entry and otherwise nothing is; no entry is ever removed
\* or reordered.
C9_TurnGrowth ==
  [][ /\ (pc = "prompt" /\ pc' = "invoking") =>
           /\ history' = Append(history, Entry("user", user_input'))
           /\ pending' = history'
      /\ (pc = "invoking" /\ pc' = "prompt") =>
           IF result'.truthy /\ result'.hasMessages
             THEN LET m == result'.messages[Len(result'.messages)] IN
                  history' = Append(history,
                                    Entry("assistant",
                                          IF m.hasContent THEN m.content ELSE m.repr))
             ELSE history' = history
      /\ pc' = "invoking" => pending' = history'
      /\ IsPrefix(history, history') ]_vars

C9_Witness ==
  /\ pc = "prompt" /\ Len(history) = 4
  /\ history[1].role = "user" /\ history[2] = Entry("assistant", <<"o", "k">>)
  /\ history[3] = Entry("user", <<"q", " ">>)
  /\ history[4] = Entry("assistant", <<"r", "a", "w">>)
  /\ result.messages = <<AIMessage, BareMessage>>

\* C10: the loop ends exactly on a line that is quit, exit or q whatever its
\* case, without invoking the agent or touching the history; on any other
\* line the turn is processed and the loop goes on, one invocation at a time.
C10_EndsOnlyOnKeyword ==
  [][ /\ outstanding' <= 1
      /\ (pc = "prompt" /\ PyLower(user_input') \in ExitKeywords) =>
           (pc' = "done" /\ history' = history /\ outstanding' = outstanding)
      /\ pc' \in {"done", "crashed"} =>
           (pc = "prompt" /\ PyLower(user_input') \in ExitKeywords) ]_vars


====
